---- MODULE Spec2Model ----
(***************************************************************************)
(* Candidate-side proctoring engine of the tutedude repository: the face   *)
(* hook (useComputerVision), the object hook (useObjectDetection), the     *)
(* CandidateView score ledger with its 5 s status poll, and the Express    *)
(* backend session they talk to.                                           *)
(*                                                                         *)
(* Time is the value of Date.now() in milliseconds.  React closures are    *)
(* modelled by what they captured: a callback registered once by an effect *)
(* keeps reading the state of the render that registered it.               *)
(***************************************************************************)
EXTENDS Integers, Sequences, FiniteSets, TLC

\* ------------------------------------------------------------------ bounds
\* Granularity of the clock: Date.now() is sampled every TickMs.
TickMs == 1000
\* The session is observed for MaxTime ms after the component mounted.
MaxTime == 12000
\* The longer watch under which the hooks are driven directly.
MaxLongTime == 17000
\* Date.now() at mount (any value well above the throttle intervals).
StartTime == 100000
\* A status poll, an event POST or a model.detect call is answered (or fails)
\* within MaxLatency ms.
MaxLatency == 1000
\* How many updates of the view's state are followed when its handlers are
\* applied directly.
MaxViewOps == 4
\* Requests an API client makes of the backend for one session.
MaxRequests == 4
\* A slow model.detect call is answered within MaxDetectLatency ms, which is
\* more than the period of the detection interval.
MaxDetectLatency == 4000
\* Violations handed to the view one after the other when the order of two
\* deductions is compared.
MaxCommuteOps == 2
\* Frames the timer rule is applied to, and the times between two of them.
MaxTimerFrames == 5
FrameGaps == {999, 1000, 1001}
\* Frames handed to the branch of one condition together with triggerEvent,
\* and the times between two of them.
MaxCandidateFrames == 6
CandidateGaps == {1000, 2001}

\* --------------------------------------------------------- program constants
GRACE_MS == 5000
NO_FACE_MS == 3000
LOOKING_AWAY_MS == 2000
EYES_CLOSED_MS == 3000
FACE_THROTTLE_MS == 5000
OBJECT_THROTTLE_MS == 8000
DETECTION_PERIOD_MS == 3000
POLL_PERIOD_MS == 5000
MIN_CONFIDENCE_PCT == 60
INITIAL_SCORE == 100
TEST_ALL_WAIT_MS == 1000
\* AbortSignal.timeout(2000) of the object hook's fetch
POST_TIMEOUT_MS == 2000
BACKEND_DEFAULT_SCORE == 100
LOCAL_EVENTS_KEPT == 4
SCORE_HISTORY_KEPT == 9

Max(a, b) == IF a >= b THEN a ELSE b

\* Array.prototype.slice(-n): the last n elements.
SliceLast(s, n) == IF Len(s) <= n THEN s ELSE SubSeq(s, Len(s) - n + 1, Len(s))

\* Math.ceil(ms / 1000)
CeilSeconds(ms) == (ms + 999) \div 1000

\* ------------------------------------------------------------------ inputs
FaceTypes == {"no_face", "multiple_faces", "focus_lost", "drowsiness"}
EventTypes == FaceTypes \cup {"object_detected", "test_violation"}

\* One processed frame, after analyzeFaceLandmarks: the number of faces and,
\* for a single face, the two flags.
Snapshots ==
    { [faces |-> 0, away |-> FALSE, closed |-> FALSE],
      [faces |-> 2, away |-> FALSE, closed |-> FALSE],
      [faces |-> 1, away |-> FALSE, closed |-> FALSE],
      [faces |-> 1, away |-> TRUE, closed |-> FALSE],
      [faces |-> 1, away |-> FALSE, closed |-> TRUE] }

\* A result without multiFaceLandmarks (a malformed or missing frame result):
\* results.multiFaceLandmarks?.length || 0 is 0 and the single-face branch is
\* not entered.
MalformedResult == [faces |-> 0, away |-> FALSE, closed |-> FALSE]

\* COCO-SSD class names (all lower case) that the frames of the model show.
Labels == {"cell phone", "book", "cup", "person"}

\* String.prototype.toLowerCase, as a table over the strings of the model.
ToLowerCase(c) ==
    CASE c = "Cell Phone" -> "cell phone"
      [] c = "Book" -> "book"
      [] OTHER -> c

suspiciousClasses ==
    { "cell phone", "book", "laptop", "keyboard", "mouse", "remote", "scissors",
      "teddy bear", "vase", "bottle", "cup", "tablet", "tv", "microwave",
      "toaster", "clock" }

Pred(c, p) == [class |-> c, pct |-> p]

\* What model.detect may resolve to: confidence in percent.
Predictions ==
    { << >>,
      << Pred("cell phone", 90) >>,
      << Pred("cell phone", 60) >>,
      << Pred("person", 95), Pred("book", 70) >>,
      << Pred("cell phone", 90), Pred("cup", 61), Pred("cell phone", 80) >> }

\* Bodies of PATCH /api/session/:id/score requests.
PatchValues == {-1, 5, 70, 101}

\* Bodies of PATCH /score: typeof of the integrityScore field and the number
\* it compares as (the string "70" as 70, null as 0).
ScoreBodies ==
    { [ typeof |-> "number", value |-> v ] : v \in {-1, 0, 5, 70, 100, 101} }
        \cup { [ typeof |-> "string", value |-> 70 ],
               [ typeof |-> "object", value |-> 0 ] }

\* Scores the view holds after some deductions: 100 less sums of 2, 5 and 10.
ScoreSamples == {0, 3, 8, 100}

\* Severities an event handed to onEvent may carry: the three of the
\* DetectionEvent type and one outside it.
Severities == {"low", "medium", "high", "critical"}

\* integrityScore values of status answers handed to the view directly.
AnswerSamples == {-5, 0, 70, 100, 150}

\* Events handed to the triggerEvent function the face hook returns.
ApiEvents ==
    { [ type |-> "focus_lost", severity |-> "medium" ],
      [ type |-> "multiple_faces", severity |-> "high" ] }

\* ------------------------------------------------------------------- state
VARIABLES
    now,                  \* Date.now()
    \* useComputerVision
    detectionEnabled,     \* useState(false)
    timeUntilDetection,   \* useState(5)
    countdownActive,      \* the 100 ms interval of the countdown effect is set
    faceData,             \* useState: facesDetected, isLookingAway, eyesClosed
    noFaceStartTime,      \* refs; 0 stands for null (the code tests !ref.current)
    lookingAwayStartTime,
    eyesClosedStartTime,
    lastEventTime,        \* lastEventTimeRef of the face hook: type -> ms, 0 unset
    \* useObjectDetection
    isLoaded,             \* model and isLoaded state
    detectionDue,         \* next firing of the 3 s interval, 0 when not set
    intervalDetectionEnabled, \* detectionEnabled seen by the interval's closure
    detecting,            \* start times of the model.detect calls awaited
    objLastEventTime,     \* lastEventTimeRef of the object hook: class -> ms
    \* CandidateView
    currentScore,
    scoreHistory,
    localEvents,
    sessionInfo,          \* last status data stored, integrityScore or -1 (null)
    pollDue,              \* next call of fetchSessionInfo
    polls,                \* status requests in flight
    posts,                \* event POSTs in flight
    \* backend session document
    events,
    integrityScore,
    isActive,
    endTime,              \* 0 stands for undefined
    \* observer: every violation handed to onEvent, in order
    emitted,
    \* observer: since, per condition, the time of the first frame of the
    \* unbroken run of frames (one per tick at least) that showed it while
    \* detection was enabled (0: no such run); onset, the same for the unbroken
    \* run of processed frames, however far apart; frameAt, the time of the last
    \* frame processed; seen, per label, the time the first detection that was
    \* started after activation and found the label suspicious resolved (0: none);
    \* rendered, the currentScore of the last render; pending, the state
    \* updates queued since that render, in order; ops, how many were queued;
    \* last, the update queued last; requests, the requests an API client made
    \* of the backend; logged, those of them that were POST /event and got
    \* success: true; afterEnd, those made after PATCH /end succeeded; step,
    \* the last application of the timer rule on its own: the condition, what
    \* the frame showed, the timer before it, the time of the frame, and
    \* whether a candidate violation was produced (n counts the applications);
    \* tried, the last call of the hook's triggerEvent: the type and the time
    watch,
    \* whether the Test buttons of CandidateView (commented out in the source)
    \* are wired to the functions the face hook returns
    testButtons,
    \* testAllViolations: phase idle, post (the fetch of triggerEvent is
    \* awaited), timer (the 1 s setTimeout is awaited); i, the index of the
    \* violation triggered last; awaiting, the POST awaited; due, when the
    \* timer fires; runs, how many times the loop has ended
    testAll,
    \* whether the hooks were given a sessionId (the prop is optional)
    sessionId,
    \* CandidateView and its two hooks are mounted
    mounted

vars ==
    << now, detectionEnabled, timeUntilDetection, countdownActive, faceData,
       noFaceStartTime, lookingAwayStartTime, eyesClosedStartTime, lastEventTime,
       isLoaded, detectionDue, intervalDetectionEnabled, detecting,
       objLastEventTime, currentScore, scoreHistory, localEvents, sessionInfo,
       pollDue, polls, posts, events, integrityScore, isActive, endTime,
       emitted, watch, testButtons, sessionId, testAll, mounted >>

faceVars ==
    << faceData, noFaceStartTime, lookingAwayStartTime, eyesClosedStartTime,
       lastEventTime >>
countdownVars == << detectionEnabled, timeUntilDetection, countdownActive >>
objectCtl ==
    << isLoaded, detectionDue, intervalDetectionEnabled, detecting >>
ledgerVars == << currentScore, scoreHistory, localEvents >>
pollVars == << sessionInfo, pollDue, polls >>
backendVars == << events, integrityScore, isActive, endTime >>
envVars == << watch, testButtons, sessionId, testAll, mounted >>

Conditions == {"noFace", "away", "closed"}

\* if (sessionId)
HasSessionId == sessionId

\* The state after the first render of the hooks, with or without a sessionId.
InitSession(buttons, score, session) ==
    /\ testButtons = buttons
    /\ sessionId = session
    /\ testAll = [ phase |-> "idle", i |-> 0, awaiting |-> {}, due |-> 0, runs |-> 0 ]
    /\ mounted = TRUE
    /\ watch = [ since |-> [ c \in Conditions |-> 0 ],
                 onset |-> [ c \in Conditions |-> 0 ], frameAt |-> 0,
                 seen |-> [ c \in Labels |-> 0 ],
                 rendered |-> score, pending |-> << >>, ops |-> 0,
                 last |-> [ src |-> "none", amount |-> 0 ],
                 requests |-> 0, logged |-> 0, afterEnd |-> 0,
                 step |-> [ n |-> 0, c |-> "none", observed |-> FALSE, start |-> 0,
                            at |-> 0, candidate |-> FALSE ],
                 tried |-> [ type |-> "none", at |-> 0 ],
                 graded |-> [ class |-> "none", severity |-> "none" ],
                 status |-> 0 ]
    /\ now = StartTime
    /\ detectionEnabled = FALSE
    /\ timeUntilDetection = 5
    /\ countdownActive = TRUE
    /\ faceData = [facesDetected |-> 0, isLookingAway |-> FALSE, eyesClosed |-> FALSE]
    /\ noFaceStartTime = 0
    /\ lookingAwayStartTime = 0
    /\ eyesClosedStartTime = 0
    /\ lastEventTime = [t \in EventTypes |-> 0]
    /\ isLoaded = FALSE
    /\ detectionDue = 0
    /\ intervalDetectionEnabled = FALSE
    /\ detecting = {}
    /\ objLastEventTime = [c \in Labels |-> 0]
    /\ currentScore = score
    /\ scoreHistory = << >>
    /\ localEvents = << >>
    /\ sessionInfo = -1
    /\ pollDue = StartTime
    /\ polls = {}
    /\ posts = {}
    /\ events = << >>
    /\ integrityScore = BACKEND_DEFAULT_SCORE
    /\ isActive = TRUE
    /\ endTime = 0
    /\ emitted = << >>

\* CandidateView hands both hooks the sessionId of the route
\* /candidate/:sessionId, which is always set.
InitWith(buttons, score) == InitSession(buttons, score, TRUE)

\* CandidateView as it is in the source: the Test buttons are commented out.
Init == InitWith(FALSE, INITIAL_SCORE)

\* ----------------------------------------------------------- closures
\* detectionStartTimeRef.current, set once when FaceMesh is initialized.
detectionStartTime == StartTime

\* Variant: a callback that reads the detectionEnabled of the latest render.
OnResultsDetectionEnabledLive == detectionEnabled

\* onResults is handed to FaceMesh once, by the mount effect (deps []): the
\* callback that runs on every frame is the one of the first render, whose
\* detectionEnabled is the initial useState(false).
OnResultsDetectionEnabled == FALSE

\* fetchSessionInfo is handed to setInterval once, by the effect with deps
\* [sessionId]: the poll reads the currentScore of the render that started it,
\* the initial useState(100).
PollCurrentScore == INITIAL_SCORE

\* ------------------------------------------------------------- ledger
\* deductionAmounts[event.severity] || 5
Deduction(severity) ==
    CASE severity = "low" -> 2
      [] severity = "medium" -> 5
      [] severity = "high" -> 10
      [] OTHER -> 5

\* The state a violation touches, threaded through the calls of one handler.
Ledger ==
    [ last |-> lastEventTime, objLast |-> objLastEventTime,
      score |-> currentScore, history |-> scoreHistory, local |-> localEvents,
      posts |-> posts, emitted |-> emitted ]

\* Variant: the deduction without the floor.
ApplyDeductionUnfloored(prev, deduction) == prev - deduction

\* setCurrentScore((prev) => Math.max(0, prev - deduction))
ApplyDeduction(prev, deduction) == Max(0, prev - deduction)

\* Variant: a face handler that deducts a flat 5 points whatever the severity.
FaceOnEventFlat(s, event) ==
    LET deduction == Deduction("medium")
        newScore == ApplyDeduction(s.score, deduction)
    IN  [ s EXCEPT
            !.score = newScore,
            !.history =
                Append(SliceLast(@, SCORE_HISTORY_KEPT),
                       [ score |-> newScore, deduction |-> deduction,
                         reason |-> event.description, timestamp |-> now ]),
            !.local =
                Append(SliceLast(@, LOCAL_EVENTS_KEPT),
                       [ type |-> event.type, description |-> event.description,
                         severity |-> event.severity, timestamp |-> now,
                         deduction |-> deduction ]) ]

\* Variant: a face handler that deducts from the score of the last render.
FaceOnEventFromRender(s, event) ==
    LET deduction == Deduction(event.severity)
        newScore == ApplyDeduction(watch.rendered, deduction)
    IN  [ s EXCEPT
            !.score = newScore,
            !.history =
                Append(SliceLast(@, SCORE_HISTORY_KEPT),
                       [ score |-> newScore, deduction |-> deduction,
                         reason |-> event.description, timestamp |-> now ]),
            !.local =
                Append(SliceLast(@, LOCAL_EVENTS_KEPT),
                       [ type |-> event.type, description |-> event.description,
                         severity |-> event.severity, timestamp |-> now,
                         deduction |-> deduction ]) ]

\* onEvent passed to useComputerVision.
FaceOnEvent(s, event) ==
    LET deduction == Deduction(event.severity)
        newScore == ApplyDeduction(s.score, deduction)
    IN  [ s EXCEPT
            !.score = newScore,
            !.history =
                Append(SliceLast(@, SCORE_HISTORY_KEPT),
                       [ score |-> newScore, deduction |-> deduction,
                         reason |-> event.description, timestamp |-> now ]),
            !.local =
                Append(SliceLast(@, LOCAL_EVENTS_KEPT),
                       [ type |-> event.type, description |-> event.description,
                         severity |-> event.severity, timestamp |-> now,
                         deduction |-> deduction ]) ]

\* Variant: an object handler that deducts from the score of the last render.
ObjectOnEventFromRender(s, event) ==
    LET deduction == Deduction(event.severity)
        newScore == ApplyDeduction(watch.rendered, deduction)
    IN  [ s EXCEPT
            !.score = newScore,
            !.history =
                Append(SliceLast(@, SCORE_HISTORY_KEPT),
                       [ score |-> newScore, deduction |-> deduction,
                         reason |-> event.description, timestamp |-> now ]),
            !.local =
                Append(SliceLast(@, LOCAL_EVENTS_KEPT),
                       [ type |-> event.type, description |-> event.description,
                         severity |-> event.severity, timestamp |-> now,
                         deduction |-> deduction ]) ]

\* onEvent passed to useObjectDetection.
ObjectOnEvent(s, event) ==
    LET deduction == Deduction(event.severity)
        newScore == ApplyDeduction(s.score, deduction)
    IN  [ s EXCEPT
            !.score = newScore,
            !.history =
                Append(SliceLast(@, SCORE_HISTORY_KEPT),
                       [ score |-> newScore, deduction |-> deduction,
                         reason |-> event.description, timestamp |-> now ]),
            !.local =
                Append(SliceLast(@, LOCAL_EVENTS_KEPT),
                       [ type |-> event.type, description |-> event.description,
                         severity |-> event.severity, timestamp |-> now,
                         deduction |-> deduction ]) ]

\* A description: the fixed text and, for an object, the class and the rounded
\* confidence that are interpolated into it.
Description(text, class, pct) == [ text |-> text, class |-> class, pct |-> pct ]

Event(type, text, severity) ==
    [ type |-> type, description |-> Description(text, "", 0), severity |-> severity ]

\* The fetch of a POST /event; after, how many violations had been handed to
\* onEvent when it was issued.
Post(event, src, s) ==
    [ event |-> event, src |-> src, sentAt |-> now, after |-> Len(s.emitted) ]

Emission(src, key, event) == [ src |-> src, key |-> key, event |-> event, at |-> now ]

\* ---------------------------------------------------------- face hook
\* Variant: a throttle window of one second.
FaceThrottledOneSecond(lastTime, currentTime) == currentTime - lastTime < 1000

\* Variant: a throttle that also drops an event exactly one interval after the
\* last one.
FaceThrottledInclusive(lastTime, currentTime) ==
    currentTime - lastTime <= FACE_THROTTLE_MS

\* currentTime - lastEventTime < 5000: the event is dropped.
FaceThrottled(lastTime, currentTime) == currentTime - lastTime < FACE_THROTTLE_MS

\* Variant: the time of the call is stored before the throttle is tested.
triggerEventStampsThrottled(s, event, currentTime) ==
    IF FaceThrottled(s.last[event.type], currentTime)
    THEN [ s EXCEPT !.last[event.type] = currentTime ]
    ELSE LET s1 == [ s EXCEPT !.last[event.type] = currentTime,
                              !.emitted = Append(@, Emission("face", event.type, event)) ]
             s2 == FaceOnEvent(s1, event)
         IN  IF HasSessionId
             THEN [ s2 EXCEPT !.posts = @ \cup { Post(event, "face", s2) } ]
             ELSE s2

\* Variant: the POST is issued first and onEvent is called after it.
triggerEventPostFirst(s, event, currentTime) ==
    IF FaceThrottled(s.last[event.type], currentTime)
    THEN s
    ELSE LET s0 == IF HasSessionId
                   THEN [ s EXCEPT !.posts = @ \cup { Post(event, "face", s) } ]
                   ELSE s
             s1 == [ s0 EXCEPT !.last[event.type] = currentTime,
                               !.emitted = Append(@, Emission("face", event.type, event)) ]
         IN  FaceOnEvent(s1, event)

triggerEvent(s, event, currentTime) ==
    IF FaceThrottled(s.last[event.type], currentTime)
    THEN s
    ELSE LET s1 == [ s EXCEPT !.last[event.type] = currentTime,
                              !.emitted = Append(@, Emission("face", event.type, event)) ]
             s2 == FaceOnEvent(s1, event)
         IN  IF HasSessionId
             THEN [ s2 EXCEPT !.posts = @ \cup { Post(event, "face", s2) } ]
             ELSE s2

\* Variant: the timer fires as soon as the threshold is reached.
FiresAtThreshold(start, currentTime, threshold) ==
    start # 0 /\ currentTime - start >= threshold

\* A condition timer after one frame: started, re-armed after firing, kept, or
\* cleared.
Fires(start, currentTime, threshold) == start # 0 /\ currentTime - start > threshold

TimerAfter(observed, start, currentTime, threshold) ==
    IF ~observed THEN 0
    ELSE IF start = 0 THEN currentTime
    ELSE IF currentTime - start > threshold THEN currentTime
    ELSE start

\* Variant: a callback that reads the live detectionEnabled and emits as soon
\* as a frame shows the condition.
OnResultsLedgerEager(snap) ==
    LET s0 == Ledger
        s1 == IF detectionEnabled /\ snap.faces = 0
              THEN triggerEvent(s0,
                       Event("no_face", "No face detected for more than 3 seconds", "high"),
                       now)
              ELSE s0
        s2 == IF detectionEnabled /\ snap.faces = 1 /\ snap.away
              THEN triggerEvent(s1,
                       Event("focus_lost",
                             "Candidate looking away for more than 2 seconds", "medium"),
                       now)
              ELSE s1
        s3 == IF detectionEnabled /\ snap.faces = 1 /\ snap.closed
              THEN triggerEvent(s2,
                       Event("drowsiness",
                             "Eyes closed for extended period - possible drowsiness",
                             "medium"),
                       now)
              ELSE s2
    IN  s3

OnResultsLedger(snap) ==
    LET en == OnResultsDetectionEnabled
        s0 == Ledger
        s1 == IF en /\ snap.faces > 1
              THEN triggerEvent(s0,
                       Event("multiple_faces", "faces detected in frame", "high"), now)
              ELSE s0
        s2 == IF en /\ snap.faces = 0 /\ Fires(noFaceStartTime, now, NO_FACE_MS)
              THEN triggerEvent(s1,
                       Event("no_face", "No face detected for more than 3 seconds", "high"),
                       now)
              ELSE s1
        s3 == IF en /\ snap.faces = 1 /\ snap.away
                    /\ Fires(lookingAwayStartTime, now, LOOKING_AWAY_MS)
              THEN triggerEvent(s2,
                       Event("focus_lost",
                             "Candidate looking away for more than 2 seconds", "medium"),
                       now)
              ELSE s2
        s4 == IF en /\ snap.faces = 1 /\ snap.closed
                    /\ Fires(eyesClosedStartTime, now, EYES_CLOSED_MS)
              THEN triggerEvent(s3,
                       Event("drowsiness",
                             "Eyes closed for extended period - possible drowsiness",
                             "medium"),
                       now)
              ELSE s3
    IN  s4

Commit(s) ==
    /\ lastEventTime' = s.last
    /\ objLastEventTime' = s.objLast
    /\ currentScore' = IF mounted THEN s.score ELSE currentScore
    /\ scoreHistory' = IF mounted THEN s.history ELSE scoreHistory
    /\ localEvents' = IF mounted THEN s.local ELSE localEvents
    /\ posts' = s.posts
    /\ emitted' = s.emitted

\* The FaceMesh results callback, once per processed frame.
OnResultsCore(snap) ==
    LET en == OnResultsDetectionEnabled
        s == OnResultsLedger(snap)
    IN  /\ mounted
        /\ faceData' =
              IF snap.faces = 1
              THEN [ facesDetected |-> 1, isLookingAway |-> snap.away,
                     eyesClosed |-> snap.closed ]
              ELSE [ faceData EXCEPT !.facesDetected = snap.faces ]
        /\ noFaceStartTime' =
              IF en THEN TimerAfter(snap.faces = 0, noFaceStartTime, now, NO_FACE_MS)
              ELSE 0
        /\ lookingAwayStartTime' =
              IF snap.faces # 1 THEN lookingAwayStartTime
              ELSE IF en
                   THEN TimerAfter(snap.away, lookingAwayStartTime, now, LOOKING_AWAY_MS)
                   ELSE 0
        /\ eyesClosedStartTime' =
              IF snap.faces # 1 THEN eyesClosedStartTime
              ELSE TimerAfter(en /\ snap.closed, eyesClosedStartTime, now, EYES_CLOSED_MS)
        /\ Commit(s)
        /\ UNCHANGED << now, countdownVars, objectCtl, pollVars, backendVars,
                        testButtons, sessionId, testAll, mounted >>

OnResults(snap) == OnResultsCore(snap) /\ UNCHANGED watch

\* Whether a frame shows a condition.
Shows(snap, c) ==
    CASE c = "noFace" -> snap.faces = 0
      [] c = "away" -> snap.faces = 1 /\ snap.away
      [] c = "closed" -> snap.faces = 1 /\ snap.closed

\* The same callback, with the observer of the frames kept.
WatchedOnResults(snap) ==
    /\ OnResultsCore(snap)
    /\ watch' =
          [ watch EXCEPT
              !.since =
                [ c \in Conditions |->
                    IF detectionEnabled /\ Shows(snap, c)
                    THEN (IF @[c] # 0 /\ now - watch.frameAt <= TickMs
                          THEN @[c] ELSE now)
                    ELSE 0 ],
              !.onset =
                [ c \in Conditions |->
                    IF detectionEnabled /\ Shows(snap, c)
                    THEN (IF @[c] # 0 THEN @[c] ELSE now)
                    ELSE 0 ],
              !.frameAt = now ]

\* triggerEvent as returned by the hook: (event) => triggerEvent(event, Date.now())
ApiTriggerEventCore(e) ==
    /\ testButtons
    /\ mounted
    /\ Commit(triggerEvent(Ledger, Event(e.type, "(TEST)", e.severity), now))
    /\ UNCHANGED << now, countdownVars, faceData, noFaceStartTime,
                    lookingAwayStartTime, eyesClosedStartTime, objectCtl, pollVars,
                    backendVars, testButtons, sessionId, testAll, mounted >>

ApiTriggerEvent(e) == ApiTriggerEventCore(e) /\ UNCHANGED watch

\* The same call, with the observer of the calls kept.
WatchedApiTriggerEvent(e) ==
    /\ ApiTriggerEventCore(e)
    /\ watch' = [ watch EXCEPT !.tried = [ type |-> e.type, at |-> now ] ]

\* The violations array of testAllViolations.
TestViolations ==
    << [ type |-> "no_face", severity |-> "high" ],
       [ type |-> "multiple_faces", severity |-> "high" ],
       [ type |-> "focus_lost", severity |-> "medium" ],
       [ type |-> "drowsiness", severity |-> "medium" ],
       [ type |-> "object_detected", severity |-> "high" ] >>

\* One iteration of the loop up to its first await: triggerEvent runs to its
\* fetch, or returns at once when the type is throttled.
TestAllTrigger(k) ==
    LET event == Event(TestViolations[k].type, "(TEST)", TestViolations[k].severity)
        s == triggerEvent(Ledger, event, now)
        sent == s.posts \ posts
    IN  /\ Commit(s)
        /\ testAll' =
              IF sent = {}
              THEN [ testAll EXCEPT !.phase = "timer", !.i = k, !.awaiting = {},
                                    !.due = now + TEST_ALL_WAIT_MS ]
              ELSE [ testAll EXCEPT !.phase = "post", !.i = k, !.awaiting = sent ]
        /\ UNCHANGED << now, countdownVars, faceData, noFaceStartTime,
                        lookingAwayStartTime, eyesClosedStartTime, objectCtl,
                        pollVars, backendVars, watch, testButtons, sessionId, mounted >>

\* The Test All button: testAllViolations is called.
TestAllStart ==
    /\ testButtons
    /\ mounted
    /\ testAll.phase = "idle"
    /\ TestAllTrigger(1)

\* The 1 s timer of the loop fires: the next violation, or the loop ends.
TestAllTimer ==
    /\ testAll.phase = "timer"
    /\ testAll.due <= now
    /\ IF testAll.i < Len(TestViolations)
       THEN TestAllTrigger(testAll.i + 1)
       ELSE /\ testAll' = [ testAll EXCEPT !.phase = "idle", !.i = 0, !.due = 0,
                                           !.runs = @ + 1 ]
            /\ UNCHANGED << now, countdownVars, faceVars, objectCtl,
                            objLastEventTime, ledgerVars, pollVars, posts,
                            backendVars, emitted, watch, testButtons, sessionId, mounted >>

\* The fetch awaited by the loop has settled: the loop goes on to its timer.
Resumed(q) ==
    IF testAll.phase = "post" /\ testAll.awaiting = { q }
    THEN [ testAll EXCEPT !.phase = "timer", !.awaiting = {},
                          !.due = now + TEST_ALL_WAIT_MS ]
    ELSE testAll

\* The countdown effect's 100 ms interval callback.
Countdown ==
    LET elapsed == now - detectionStartTime
        remaining == Max(0, GRACE_MS - elapsed)
    IN  /\ countdownActive
        /\ timeUntilDetection' = CeilSeconds(remaining)
        /\ detectionEnabled' = IF remaining = 0 THEN TRUE ELSE detectionEnabled
        /\ countdownActive' = (remaining # 0)
        /\ UNCHANGED << now, faceVars, objectCtl, objLastEventTime, ledgerVars,
                        pollVars, posts, backendVars, emitted, envVars >>

\* -------------------------------------------------------- object hook
\* Variant: the classes as the violation guide lists them, without microwave
\* among the devices and without clock among the suspicious items.
getSeverityDocumented(objectClass) ==
    LET lowerClass == ToLowerCase(objectClass)
    IN  IF lowerClass \in { "cell phone", "laptop", "keyboard", "mouse", "tablet",
                            "tv" }
        THEN "high"
        ELSE IF lowerClass \in { "book", "remote", "scissors" }
        THEN "medium"
        ELSE "low"

getSeverity(objectClass) ==
    LET lowerClass == ToLowerCase(objectClass)
    IN  IF lowerClass \in { "cell phone", "laptop", "keyboard", "mouse", "tablet",
                            "tv", "microwave" }
        THEN "high"
        ELSE IF lowerClass \in { "book", "remote", "scissors", "clock" }
        THEN "medium"
        ELSE "low"

\* Variant: a filter that lets a confidence of exactly 0.6 through.
IsSuspiciousInclusive(obj) ==
    ToLowerCase(obj.class) \in suspiciousClasses /\ obj.pct >= MIN_CONFIDENCE_PCT

\* detectedObjects.filter(...): monitored class and score > 0.6
IsSuspicious(obj) ==
    ToLowerCase(obj.class) \in suspiciousClasses /\ obj.pct > MIN_CONFIDENCE_PCT

Suspicious(predictions) == SelectSeq(predictions, IsSuspicious)

\* Variant: objects throttled with the interval of the face hook.
ObjectThrottledAsFace(lastTime, currentTime) ==
    currentTime - lastTime < FACE_THROTTLE_MS

\* currentTime - lastEventTime < 8000: the object is skipped.
ObjectThrottled(lastTime, currentTime) == currentTime - lastTime < OBJECT_THROTTLE_MS

ObjectEvent(obj) ==
    [ type |-> "object_detected",
      description |-> Description("detected in frame", obj.class, obj.pct),
      severity |-> getSeverity(obj.class) ]

RECURSIVE processSuspiciousObjects(_, _, _)
processSuspiciousObjects(s, suspicious, currentTime) ==
    IF suspicious = << >>
    THEN s
    ELSE LET obj == Head(suspicious)
             event == ObjectEvent(obj)
         IN  IF ObjectThrottled(s.objLast[obj.class], currentTime)
             THEN processSuspiciousObjects(s, Tail(suspicious), currentTime)
             ELSE LET s1 == [ s EXCEPT
                                !.objLast[obj.class] = currentTime,
                                !.emitted =
                                    Append(@, Emission("object", obj.class, event)) ]
                      s2 == ObjectOnEvent(s1, event)
                      s3 == IF HasSessionId
                            THEN [ s2 EXCEPT !.posts = @ \cup { Post(event, "object", s2) } ]
                            ELSE s2
                  IN  processSuspiciousObjects(s3, Tail(suspicious), currentTime)

\* Variant: performDetection without the detectionEnabled test.
PerformDetectionUngated(predictions) ==
    processSuspiciousObjects(Ledger, Suspicious(predictions), now)

\* performDetection after model.detect resolved: what the interval's closure
\* does with the predictions.
PerformDetectionLedger(predictions) ==
    IF intervalDetectionEnabled
    THEN processSuspiciousObjects(Ledger, Suspicious(predictions), now)
    ELSE Ledger

\* cocoSsd.load resolved: setModel, setIsLoaded, and the effect on
\* [model, isLoaded, enabled] runs startDetection with the closure of that render.
ModelLoaded ==
    /\ mounted
    /\ ~isLoaded
    /\ isLoaded' = TRUE
    /\ detectionDue' = now + DETECTION_PERIOD_MS
    /\ intervalDetectionEnabled' = detectionEnabled
    /\ UNCHANGED << now, countdownVars, faceVars, detecting, objLastEventTime,
                    ledgerVars, pollVars, posts, backendVars, emitted, envVars >>

\* The 3 s interval fires: performDetection calls model.detect and awaits it.
DetectionTimer ==
    /\ detectionDue # 0
    /\ detectionDue <= now
    /\ detecting' = detecting \cup { now }
    /\ detectionDue' = detectionDue + DETECTION_PERIOD_MS
    /\ UNCHANGED << now, countdownVars, faceVars, isLoaded, intervalDetectionEnabled,
                    objLastEventTime, ledgerVars, pollVars, posts, backendVars,
                    emitted, envVars >>

\* model.detect resolves (a rejected detect is caught and acts as no prediction).
DetectDoneCore(d, predictions) ==
    LET s == PerformDetectionLedger(predictions)
    IN  /\ d \in detecting
        /\ detecting' = detecting \ { d }
        /\ Commit(s)
        /\ UNCHANGED << now, countdownVars, faceData, noFaceStartTime,
                        lookingAwayStartTime, eyesClosedStartTime, isLoaded,
                        detectionDue, intervalDetectionEnabled, pollVars,
                        backendVars, testButtons, sessionId, testAll, mounted >>

DetectDone(d, predictions) == DetectDoneCore(d, predictions) /\ UNCHANGED watch

\* The same step, with the observer of the detections kept.
WatchedDetectDone(d, predictions) ==
    LET suspicious == Suspicious(predictions)
        found(c) == \E i \in 1..Len(suspicious) : suspicious[i].class = c
    IN  /\ DetectDoneCore(d, predictions)
        /\ watch' =
              [ watch EXCEPT
                  !.seen =
                    [ c \in Labels |->
                        IF /\ @[c] = 0
                           /\ detectionEnabled
                           /\ d - detectionStartTime > GRACE_MS
                           /\ found(c)
                        THEN now ELSE @[c] ] ]

\* ------------------------------------------------------- status poll
PollRequest == [ st |-> "req", at |-> now, integrityScore |-> 0 ]

\* fetchSessionInfo is called: at mount and then by the 5 s interval.
PollTimer ==
    /\ HasSessionId
    /\ mounted
    /\ pollDue <= now
    /\ polls' = polls \cup { PollRequest }
    /\ pollDue' = pollDue + POLL_PERIOD_MS
    /\ UNCHANGED << now, countdownVars, faceVars, objectCtl, objLastEventTime,
                    ledgerVars, sessionInfo, posts, backendVars, emitted, envVars >>

\* GET /api/session/:id/status
StatusRespond(p) ==
    /\ p \in polls
    /\ p.st = "req"
    /\ polls' = (polls \ { p }) \cup { [ p EXCEPT !.st = "resp",
                                                  !.integrityScore = integrityScore ] }
    /\ UNCHANGED << now, countdownVars, faceVars, objectCtl, objLastEventTime,
                    ledgerVars, sessionInfo, pollDue, posts, backendVars, emitted, envVars >>

\* The fetch rejects, or the answer carries no sessionId: nothing is stored.
PollFail(p) ==
    /\ p \in polls
    /\ p.st = "req"
    /\ polls' = polls \ { p }
    /\ UNCHANGED << now, countdownVars, faceVars, objectCtl, objLastEventTime,
                    ledgerVars, sessionInfo, pollDue, posts, backendVars, emitted, envVars >>

\* Variant: a sync rule that moves the score halfway to the reported one.
ReconcileHalfway(closureScore, local, remote) == (local + remote) \div 2

\* The score after a status answer, as the poll's closure computes it.
Reconcile(closureScore, local, remote) ==
    IF closureScore = INITIAL_SCORE \/ remote < closureScore THEN remote ELSE local

\* The rest of fetchSessionInfo, with the answer.
PollApply(p) ==
    /\ p \in polls
    /\ p.st = "resp"
    /\ polls' = polls \ { p }
    /\ sessionInfo' = IF mounted THEN p.integrityScore ELSE sessionInfo
    /\ currentScore' =
          IF mounted
          THEN Reconcile(PollCurrentScore, currentScore, p.integrityScore)
          ELSE currentScore
    /\ UNCHANGED << now, countdownVars, faceVars, objectCtl, objLastEventTime,
                    scoreHistory, localEvents, pollDue, posts, backendVars, emitted, envVars >>

\* ------------------------------------------------------------ backend
\* POST /api/session/:id/event
PostDeliver(q) ==
    /\ q \in posts
    /\ posts' = posts \ { q }
    /\ events' = Append(events, [ type |-> q.event.type,
                                  description |-> q.event.description,
                                  severity |-> q.event.severity,
                                  timestamp |-> now ])
    /\ UNCHANGED << now, countdownVars, faceVars, objectCtl, objLastEventTime,
                    ledgerVars, pollVars, integrityScore, isActive, endTime,
                    emitted, watch, testButtons, sessionId, mounted >>
    /\ testAll' = Resumed(q)

\* Variant: a failed POST gives the deducted points back.
PostFailRefund(q) ==
    /\ q \in posts
    /\ posts' = posts \ { q }
    /\ currentScore' = currentScore + Deduction(q.event.severity)
    /\ UNCHANGED << now, countdownVars, faceVars, objectCtl, objLastEventTime,
                    scoreHistory, localEvents, pollVars, backendVars, emitted,
                    watch, testButtons, sessionId, mounted >>
    /\ testAll' = Resumed(q)

\* Variant: a failed POST is issued again.
PostFailRetry(q) ==
    /\ q \in posts
    /\ q.sentAt < now
    /\ posts' = (posts \ { q }) \cup { [ q EXCEPT !.sentAt = now ] }
    /\ testAll' = testAll
    /\ UNCHANGED << now, countdownVars, faceVars, objectCtl, objLastEventTime,
                    ledgerVars, pollVars, backendVars, emitted, watch,
                    testButtons, sessionId, mounted >>

\* The POST fails, times out or is answered with an error: it is dropped.
PostFail(q) ==
    /\ q \in posts
    /\ posts' = posts \ { q }
    /\ testAll' = Resumed(q)
    /\ UNCHANGED << now, countdownVars, faceVars, objectCtl, objLastEventTime,
                    ledgerVars, pollVars, backendVars, emitted, watch,
                    testButtons, sessionId, mounted >>

ValidScore(v) == v >= 0 /\ v <= 100

\* PATCH /api/session/:id/score
PatchScoreCore(v) ==
    /\ integrityScore' = IF ValidScore(v) THEN v ELSE integrityScore
    /\ UNCHANGED << now, countdownVars, faceVars, objectCtl, objLastEventTime,
                    ledgerVars, pollVars, posts, events, isActive, endTime,
                    emitted, testButtons, sessionId, testAll, mounted >>

PatchScore(v) == PatchScoreCore(v) /\ UNCHANGED watch

\* POST /api/session/:id/event with a body that may lack type or severity:
\* the destructuring defaults severity to "medium"; a type that is missing
\* stays undefined.
StoredEvent(body) ==
    [ type |-> body.type, description |-> body.description,
      severity |-> IF body.severity = "undefined" THEN "medium" ELSE body.severity,
      timestamp |-> now ]

\* Variant: events are logged for active sessions only.
LogEventWhileActive(body) ==
    /\ events' = IF isActive THEN Append(events, StoredEvent(body)) ELSE events
    /\ UNCHANGED << now, countdownVars, faceVars, objectCtl, objLastEventTime,
                    ledgerVars, pollVars, posts, integrityScore, isActive, endTime,
                    emitted, testButtons, sessionId, testAll, mounted >>

\* POST /api/session/:id/event, the push and the save, answered success: true.
LogEvent(body) ==
    /\ events' = Append(events, StoredEvent(body))
    /\ UNCHANGED << now, countdownVars, faceVars, objectCtl, objLastEventTime,
                    ledgerVars, pollVars, posts, integrityScore, isActive, endTime,
                    emitted, testButtons, sessionId, testAll, mounted >>

\* Variant: ending a session that records the end time only.
EndSessionTimeOnly ==
    /\ endTime' = now
    /\ UNCHANGED << now, countdownVars, faceVars, objectCtl, objLastEventTime,
                    ledgerVars, pollVars, posts, events, integrityScore, isActive,
                    emitted, testButtons, sessionId, testAll, mounted >>

\* PATCH /api/session/:id/end
EndSession ==
    /\ endTime' = now
    /\ isActive' = FALSE
    /\ UNCHANGED << now, countdownVars, faceVars, objectCtl, objLastEventTime,
                    ledgerVars, pollVars, posts, events, integrityScore,
                    emitted, testButtons, sessionId, testAll, mounted >>

\* A request that is answered 404 or 500: the document is not saved.
RequestRejected ==
    UNCHANGED << now, countdownVars, faceVars, objectCtl, objLastEventTime,
                 ledgerVars, pollVars, posts, backendVars, emitted, testButtons, sessionId,
                 testAll, mounted >>

\* GET /api/session/:id/status, the fields of the answer.
Status ==
    [ isActive |-> isActive, integrityScore |-> integrityScore,
      eventCount |-> Len(events), recentEvents |-> SliceLast(events, 10) ]

\* Variant: statistics that mark a type as present instead of counting it.
EventStatsPresence(evs) ==
    [ t \in { evs[i].type : i \in 1..Len(evs) } |-> 1 ]

\* The reduce of the report: per type, the number of events of the type.
EventStats(evs) ==
    [ t \in { evs[i].type : i \in 1..Len(evs) } |->
        Cardinality({ i \in 1..Len(evs) : evs[i].type = t }) ]

\* GET /api/session/:id/report, the fields of the answer.
Report ==
    [ session |-> [ events |-> events, integrityScore |-> integrityScore,
                    isActive |-> isActive, endTime |-> endTime ],
      eventStats |-> EventStats(events), totalEvents |-> Len(events) ]

\* ----------------------------------------------------------- teardown
\* CandidateView is unmounted: the effects' cleanups clear the countdown, the
\* detection interval and the poll interval; the refs of the video and the
\* canvas become null. What is awaited at that moment stays awaited.
Unmount ==
    /\ mounted
    /\ mounted' = FALSE
    /\ countdownActive' = FALSE
    /\ detectionDue' = 0
    /\ UNCHANGED << now, detectionEnabled, timeUntilDetection, faceVars, isLoaded,
                    intervalDetectionEnabled, detecting, objLastEventTime,
                    ledgerVars, pollVars, posts, backendVars, emitted, watch,
                    testButtons, sessionId, testAll >>

\* --------------------------------------------------------------- time
\* Timers that are due run before the clock is read again.
TimersServed ==
    /\ countdownActive =>
          /\ now - detectionStartTime < GRACE_MS
          /\ timeUntilDetection = CeilSeconds(GRACE_MS - (now - detectionStartTime))
    /\ (HasSessionId /\ mounted) => pollDue > now
    /\ detectionDue # 0 => detectionDue > now
    /\ testAll.phase = "timer" => testAll.due > now

\* Nothing in flight is older than MaxLatency when the clock is read again.
InFlightAnswered ==
    /\ \A p \in polls : now + TickMs - p.at <= MaxLatency
    /\ \A q \in posts : now + TickMs - q.sentAt <= MaxLatency
    /\ \A d \in detecting : now + TickMs - d <= MaxLatency

TickUntil(horizon) ==
    /\ now + TickMs <= StartTime + horizon
    /\ TimersServed
    /\ InFlightAnswered
    /\ now' = now + TickMs
    /\ UNCHANGED << countdownVars, faceVars, objectCtl, objLastEventTime,
                    ledgerVars, pollVars, posts, backendVars, emitted, envVars >>

Tick == TickUntil(MaxTime)

LongTick == TickUntil(MaxLongTime)

\* The clock when the backend does not answer: the fetch of the object hook
\* is aborted by its AbortSignal.timeout, the fetch of triggerEvent carries no
\* signal and stays pending until the network gives up.
UnansweredTick ==
    /\ now + TickMs <= StartTime + MaxTime
    /\ TimersServed
    /\ \A p \in polls : now + TickMs - p.at <= MaxLatency
    /\ \A q \in posts :
          q.src = "object" => now + TickMs - q.sentAt <= POST_TIMEOUT_MS
    /\ \A d \in detecting : now + TickMs - d <= MaxLatency
    /\ now' = now + TickMs
    /\ UNCHANGED << countdownVars, faceVars, objectCtl, objLastEventTime,
                    ledgerVars, pollVars, posts, backendVars, emitted, envVars >>

\* The clock of a device on which model.detect may take MaxDetectLatency ms.
SlowTick ==
    /\ now + TickMs <= StartTime + MaxTime
    /\ TimersServed
    /\ \A p \in polls : now + TickMs - p.at <= MaxLatency
    /\ \A q \in posts : now + TickMs - q.sentAt <= MaxLatency
    /\ \A d \in detecting : now + TickMs - d <= MaxDetectLatency
    /\ now' = now + TickMs
    /\ UNCHANGED << countdownVars, faceVars, objectCtl, objLastEventTime,
                    ledgerVars, pollVars, posts, backendVars, emitted, envVars >>

\* ------------------------------------------------------ specifications
\* The candidate view as deployed, with its backend.
Next ==
    \/ Tick
    \/ Countdown
    \/ \E snap \in Snapshots : OnResults(snap)
    \/ ModelLoaded
    \/ DetectionTimer
    \/ \E d \in detecting, predictions \in Predictions : DetectDone(d, predictions)
    \/ PollTimer
    \/ \E p \in polls : StatusRespond(p)
    \/ \E p \in polls : PollFail(p)
    \/ \E p \in polls : PollApply(p)
    \/ \E q \in posts : PostDeliver(q)
    \/ \E q \in posts : PostFail(q)
    \/ \E v \in PatchValues : PatchScore(v)

Spec == Init /\ [][Next]_vars

\* The face pipeline alone, frame by frame, with the backend unreachable.
NextFace ==
    \/ Tick
    \/ Countdown
    \/ \E snap \in Snapshots : WatchedOnResults(snap)
    \/ PollTimer
    \/ \E p \in polls : PollFail(p)

SpecFace == Init /\ [][NextFace]_vars

\* The two hooks driven directly over the longer watch, with the backend
\* unreachable: either the Test buttons call the face hook's triggerEvent, or
\* the object model loads and its detection interval runs.
InitHook == \E buttons \in BOOLEAN : InitWith(buttons, INITIAL_SCORE)

NextHook ==
    \/ LongTick
    \/ Countdown
    \/ \E e \in ApiEvents : ApiTriggerEvent(e)
    \/ ~testButtons /\ ModelLoaded
    \/ DetectionTimer
    \/ \E d \in detecting, predictions \in Predictions :
          WatchedDetectDone(d, predictions)
    \/ \E q \in posts : PostFail(q)
    \/ PollTimer
    \/ \E p \in polls : PollFail(p)

SpecHook == InitHook /\ [][NextHook]_vars

\* The same two hooks with every call of the face hook's triggerEvent
\* observed, the dropped ones included; the calls over the shorter watch, the
\* detections over the longer one.
NextThrottle ==
    \/ testButtons /\ Tick
    \/ ~testButtons /\ LongTick
    \/ Countdown
    \/ \E e \in ApiEvents : WatchedApiTriggerEvent(e)
    \/ ~testButtons /\ ModelLoaded
    \/ DetectionTimer
    \/ \E d \in detecting, predictions \in Predictions :
          WatchedDetectDone(d, predictions)
    \/ \E q \in posts : PostFail(q)
    \/ PollTimer
    \/ \E p \in polls : PollFail(p)

SpecThrottle == InitHook /\ [][NextThrottle]_vars

\* The two hooks driven directly, with or without a sessionId.
InitDelivery ==
    \E buttons \in BOOLEAN, session \in BOOLEAN :
        InitSession(buttons, INITIAL_SCORE, session)

NextDelivery ==
    \/ testButtons /\ Tick
    \/ ~testButtons /\ LongTick
    \/ Countdown
    \/ \E e \in ApiEvents : WatchedApiTriggerEvent(e)
    \/ ~testButtons /\ ModelLoaded
    \/ DetectionTimer
    \/ \E d \in detecting, predictions \in Predictions :
          WatchedDetectDone(d, predictions)
    \/ \E q \in posts : PostFail(q)
    \/ PollTimer
    \/ \E p \in polls : PollFail(p)

SpecDelivery == InitDelivery /\ [][NextDelivery]_vars

\* The two hooks driven directly while the backend does not answer in time.
NextUnanswered ==
    \/ UnansweredTick
    \/ Countdown
    \/ \E e \in ApiEvents : ApiTriggerEvent(e)
    \/ ~testButtons /\ ModelLoaded
    \/ DetectionTimer
    \/ \E d \in detecting, predictions \in Predictions : DetectDone(d, predictions)
    \/ \E q \in posts : PostFail(q)
    \/ PollTimer
    \/ \E p \in polls : PollFail(p)

SpecUnanswered == InitHook /\ [][NextUnanswered]_vars

\* Both pipelines on a device on which model.detect may take longer than the
\* period of the detection interval, with the backend unreachable.
NextSlow ==
    \/ SlowTick
    \/ Countdown
    \/ \E snap \in Snapshots : OnResults(snap)
    \/ ModelLoaded
    \/ DetectionTimer
    \/ \E d \in detecting, predictions \in Predictions : DetectDone(d, predictions)
    \/ \E q \in posts : PostFail(q)
    \/ PollTimer
    \/ \E p \in polls : PollFail(p)

SpecSlow == Init /\ [][NextSlow]_vars

\* The view with both pipelines and its teardown, the backend answering the
\* POSTs only.
NextTeardown ==
    \/ Tick
    \/ Countdown
    \/ \E snap \in Snapshots : OnResults(snap)
    \/ ModelLoaded
    \/ DetectionTimer
    \/ \E d \in detecting, predictions \in Predictions : DetectDone(d, predictions)
    \/ \E q \in posts : PostDeliver(q)
    \/ \E q \in posts : PostFail(q)
    \/ PollTimer
    \/ \E p \in polls : PollFail(p)
    \/ Unmount

SpecTeardown == Init /\ [][NextTeardown]_vars

\* ------------------------------------------------- the view's updates
\* One state update queued by the view before the next render.
Queued(src, amount) == [ src |-> src, amount |-> amount ]

Enqueue(src, amount) ==
    /\ watch.ops < MaxViewOps
    /\ watch' = [ watch EXCEPT !.pending = Append(@, Queued(src, amount)),
                               !.ops = @ + 1,
                               !.last = Queued(src, amount) ]

\* The face hook calls its onEvent.
FaceDelivers(severity) ==
    LET event == Event("test_violation", "(TEST)", severity)
        s == [ Ledger EXCEPT !.emitted = Append(@, Emission("face", event.type, event)) ]
        t == FaceOnEvent(s, event)
    IN  /\ Enqueue("face", Deduction(severity))
        /\ currentScore' = t.score
        /\ scoreHistory' = t.history
        /\ localEvents' = t.local
        /\ emitted' = t.emitted
        /\ UNCHANGED << now, countdownVars, faceVars, objectCtl, objLastEventTime,
                        pollVars, posts, backendVars, testButtons, sessionId, testAll, mounted >>

\* The object hook calls its onEvent.
ObjectDelivers(severity) ==
    LET event == Event("object_detected", "detected in frame", severity)
        s == [ Ledger EXCEPT
                 !.emitted = Append(@, Emission("object", event.type, event)) ]
        t == ObjectOnEvent(s, event)
    IN  /\ Enqueue("object", Deduction(severity))
        /\ currentScore' = t.score
        /\ scoreHistory' = t.history
        /\ localEvents' = t.local
        /\ emitted' = t.emitted
        /\ UNCHANGED << now, countdownVars, faceVars, objectCtl, objLastEventTime,
                        pollVars, posts, backendVars, testButtons, sessionId, testAll, mounted >>

\* fetchSessionInfo receives a status answer with integrityScore r.
AnswerApplied(r) ==
    /\ Enqueue("poll", r)
    /\ sessionInfo' = r
    /\ currentScore' = Reconcile(PollCurrentScore, currentScore, r)
    /\ UNCHANGED << now, countdownVars, faceVars, objectCtl, objLastEventTime,
                    scoreHistory, localEvents, pollDue, polls, posts, backendVars,
                    emitted, testButtons, sessionId, testAll, mounted >>

\* React renders: the queued updates have taken effect.
Render ==
    /\ watch.pending # << >>
    /\ watch' = [ watch EXCEPT !.rendered = currentScore, !.pending = << >> ]
    /\ UNCHANGED << now, countdownVars, faceVars, objectCtl, objLastEventTime,
                    ledgerVars, pollVars, posts, backendVars, emitted, testButtons, sessionId, testAll, mounted >>

\* The handlers and the sync rule of CandidateView applied directly, from a
\* score the view can hold.
InitView == \E score \in ScoreSamples : InitWith(FALSE, score)

NextView ==
    \/ \E severity \in Severities : FaceDelivers(severity)
    \/ \E severity \in Severities : ObjectDelivers(severity)
    \/ \E r \in AnswerSamples : AnswerApplied(r)
    \/ Render

SpecView == InitView /\ [][NextView]_vars

\* Labels whose severity is computed: the monitored set, two labels outside
\* it and two spelled with capitals.
GradedLabels == suspiciousClasses \cup { "person", "chair", "Cell Phone", "Book" }

\* processSuspiciousObjects builds the event of one object and calls onEvent.
ObjectGraded(c) ==
    LET event == ObjectEvent(Pred(c, 90))
        s == [ Ledger EXCEPT !.emitted = Append(@, Emission("object", c, event)) ]
        t == ObjectOnEvent(s, event)
    IN  /\ watch.ops < MaxCommuteOps
        /\ watch' = [ watch EXCEPT
                        !.ops = @ + 1,
                        !.graded = [ class |-> c, severity |-> event.severity ] ]
        /\ currentScore' = t.score
        /\ scoreHistory' = t.history
        /\ localEvents' = t.local
        /\ emitted' = t.emitted
        /\ UNCHANGED << now, countdownVars, faceVars, objectCtl, objLastEventTime,
                        pollVars, posts, backendVars, testButtons, sessionId,
                        testAll, mounted >>

NextSeverity == \E c \in GradedLabels : ObjectGraded(c)

SpecSeverity == Init /\ [][NextSeverity]_vars

\* Two violations handed to the view in either order, from every score.
InitCommute == \E score \in 0..INITIAL_SCORE : InitWith(FALSE, score)

NextCommute ==
    \/ \E severity \in Severities :
          watch.ops < MaxCommuteOps /\ FaceDelivers(severity)
    \/ \E severity \in Severities :
          watch.ops < MaxCommuteOps /\ ObjectDelivers(severity)

SpecCommute == InitCommute /\ [][NextCommute]_vars

\* The backend and one session document, driven by an API client the way the
\* test script drives it: the session has just been started.
EventBodies ==
    { [ type |-> t, description |-> "Test violation", severity |-> v ] :
        t \in {"focus_lost", "object_detected", "undefined"},
        v \in {"high", "undefined"} }

\* The client's request has been handled; logged tells whether it was a POST
\* /event answered success: true.
Handled(logged) ==
    /\ watch.requests < MaxRequests
    /\ watch' = [ watch EXCEPT !.requests = @ + 1,
                               !.logged = IF logged THEN @ + 1 ELSE @,
                               !.afterEnd = IF isActive THEN @ ELSE @ + 1 ]

ApiPostEvent(body) == Handled(TRUE) /\ LogEvent(body)

ApiPatchScore(v) == Handled(FALSE) /\ PatchScoreCore(v)

ApiEndSession == Handled(FALSE) /\ EndSession

ApiRejected == Handled(FALSE) /\ RequestRejected

\* Variant: the range is tested without typeof.
PatchRequestUntyped(body) == PatchScoreCore(body.value)

\* PATCH /api/session/:id/score with any JSON body.
PatchRequest(body) ==
    IF body.typeof # "number" THEN RequestRejected ELSE PatchScoreCore(body.value)

\* The status of the answer: 400 from the validation, else 200.
PatchStatus(body) ==
    IF body.typeof # "number" \/ ~ValidScore(body.value) THEN 400 ELSE 200

ApiPatchRequest(body) ==
    /\ watch.requests < MaxRequests
    /\ watch' = [ watch EXCEPT !.requests = @ + 1,
                               !.afterEnd = IF isActive THEN @ ELSE @ + 1,
                               !.status = PatchStatus(body) ]
    /\ PatchRequest(body)

\* An API client that also sends scores of any type.
NextPatch ==
    \/ \E body \in EventBodies : ApiPostEvent(body)
    \/ \E body \in ScoreBodies : ApiPatchRequest(body)
    \/ ApiEndSession
    \/ ApiRejected

SpecPatch == Init /\ [][NextPatch]_vars

NextBackend ==
    \/ \E body \in EventBodies : ApiPostEvent(body)
    \/ \E v \in PatchValues : ApiPatchScore(v)
    \/ ApiEndSession
    \/ ApiRejected

SpecBackend == Init /\ [][NextBackend]_vars

\* The view with the Test buttons wired and the backend unreachable: Test All
\* is pressed, and pressed again when its loop has ended.
InitTestAll == InitWith(TRUE, INITIAL_SCORE)

NextTestAll ==
    \/ Tick
    \/ Countdown
    \/ TestAllStart
    \/ TestAllTimer
    \/ \E q \in posts : PostFail(q)
    \/ PollTimer
    \/ \E p \in polls : PollFail(p)

SpecTestAll == InitTestAll /\ [][NextTestAll]_vars

\* The timer rule of the enabled branches of onResults on its own: one
\* condition, chosen with the first frame, and frames that show it or not,
\* about a second apart.
Threshold(c) ==
    CASE c = "noFace" -> NO_FACE_MS
      [] c = "away" -> LOOKING_AWAY_MS
      [] c = "closed" -> EYES_CLOSED_MS

Timer(c) ==
    CASE c = "noFace" -> noFaceStartTime
      [] c = "away" -> lookingAwayStartTime
      [] c = "closed" -> eyesClosedStartTime

TimerFrame(c, observed, gap) ==
    LET currentTime == now + gap
        after == TimerAfter(observed, Timer(c), currentTime, Threshold(c))
    IN  /\ watch.step.n < MaxTimerFrames
        /\ watch.step.c \in {"none", c}
        /\ now' = currentTime
        /\ noFaceStartTime' = IF c = "noFace" THEN after ELSE noFaceStartTime
        /\ lookingAwayStartTime' = IF c = "away" THEN after ELSE lookingAwayStartTime
        /\ eyesClosedStartTime' = IF c = "closed" THEN after ELSE eyesClosedStartTime
        /\ watch' =
              [ watch EXCEPT
                  !.step = [ n |-> @.n + 1, c |-> c, observed |-> observed,
                             start |-> Timer(c), at |-> currentTime,
                             candidate |-> observed /\ Fires(Timer(c), currentTime,
                                                              Threshold(c)) ] ]
        /\ UNCHANGED << countdownVars, faceData, lastEventTime, objectCtl,
                        objLastEventTime, ledgerVars, pollVars, posts,
                        backendVars, emitted, testButtons, sessionId, testAll, mounted >>

\* The violation a condition raises when its timer has run out.
ConditionEvent(c) ==
    CASE c = "noFace" ->
             Event("no_face", "No face detected for more than 3 seconds", "high")
      [] c = "away" ->
             Event("focus_lost", "Candidate looking away for more than 2 seconds",
                   "medium")
      [] c = "closed" ->
             Event("drowsiness",
                   "Eyes closed for extended period - possible drowsiness", "medium")

\* The branch of one condition inside if (detectionEnabled), on one frame: the
\* timer is started, or it has run out and triggerEvent is called and the timer
\* re-armed, or it is cleared.
CandidateFrame(c, observed) ==
    LET candidate == observed /\ Fires(Timer(c), now, Threshold(c))
        after == TimerAfter(observed, Timer(c), now, Threshold(c))
        s == IF candidate THEN triggerEvent(Ledger, ConditionEvent(c), now)
             ELSE Ledger
    IN  /\ watch.step.n < MaxCandidateFrames
        /\ watch.step.c \in {"none", c}
        /\ watch.step.at < now
        /\ noFaceStartTime' = IF c = "noFace" THEN after ELSE noFaceStartTime
        /\ lookingAwayStartTime' = IF c = "away" THEN after ELSE lookingAwayStartTime
        /\ eyesClosedStartTime' = IF c = "closed" THEN after ELSE eyesClosedStartTime
        /\ Commit(s)
        /\ watch' =
              [ watch EXCEPT
                  !.step = [ n |-> @.n + 1, c |-> c, observed |-> observed,
                             start |-> Timer(c), at |-> now,
                             candidate |-> candidate ] ]
        /\ UNCHANGED << now, countdownVars, faceData, objectCtl, pollVars,
                        backendVars, testButtons, sessionId, testAll, mounted >>

\* Date.now() at the next frame.
FrameClock(gap) ==
    /\ watch.step.n < MaxCandidateFrames
    /\ watch.step.at = now
    /\ now' = now + gap
    /\ UNCHANGED << countdownVars, faceVars, objectCtl, objLastEventTime,
                    ledgerVars, pollVars, posts, backendVars, emitted, envVars >>

NextCandidate ==
    \/ \E c \in Conditions, observed \in BOOLEAN : CandidateFrame(c, observed)
    \/ \E gap \in CandidateGaps : FrameClock(gap)
    \/ \E q \in posts : PostFail(q)

SpecCandidate == Init /\ [][NextCandidate]_vars

NextTimer ==
    \E c \in Conditions, observed \in BOOLEAN, gap \in FrameGaps :
        TimerFrame(c, observed, gap)

SpecTimer == Init /\ [][NextTimer]_vars

\* The two onEvent handlers of CandidateView applied to a score the view can
\* hold, over the shorter watch.
InitLedger ==
    \E buttons \in BOOLEAN, score \in ScoreSamples : InitWith(buttons, score)

NextLedger ==
    \/ Tick
    \/ Countdown
    \/ \E e \in ApiEvents : ApiTriggerEvent(e)
    \/ ~testButtons /\ ModelLoaded
    \/ DetectionTimer
    \/ \E d \in detecting, predictions \in Predictions : DetectDone(d, predictions)
    \/ \E q \in posts : PostFail(q)
    \/ PollTimer
    \/ \E p \in polls : PollFail(p)

SpecLedger == InitLedger /\ [][NextLedger]_vars

\* --------------------------------------------------------- properties
\* C1: once local deductions have lowered the local score below 100, applying
\* a status answer whose integrityScore is higher than the local score leaves
\* the local score unchanged.
C1_HigherRemoteScoreIgnored ==
    [][\A p \in polls :
          ( /\ p.st = "resp"
            /\ polls' = polls \ { p }
            /\ scoreHistory # << >>
            /\ currentScore < INITIAL_SCORE
            /\ p.integrityScore > currentScore )
          => currentScore' = currentScore]_vars

C3_ThrottleSpacing ==
    LET N == 1..Len(emitted)
        interval(src) ==
            IF src = "face" THEN FACE_THROTTLE_MS ELSE OBJECT_THROTTLE_MS
        idx(src, key) == { i \in N : emitted[i].src = src /\ emitted[i].key = key }
        lastAt(src, key) ==
            IF idx(src, key) = {} THEN 0
            ELSE emitted[CHOOSE i \in idx(src, key) :
                            \A j \in idx(src, key) : j <= i].at
    IN  /\ \A i, j \in N :
              ( /\ i < j
                /\ emitted[i].src = emitted[j].src
                /\ emitted[i].key = emitted[j].key )
              => emitted[j].at - emitted[i].at >= interval(emitted[i].src)
        /\ \A t \in EventTypes : lastEventTime[t] = lastAt("face", t)
        /\ \A c \in Labels : objLastEventTime[c] = lastAt("object", c)

\* focus_lost was emitted twice, exactly one interval apart, and multiple_faces
\* in between, less than an interval after the first.
C3_TwoTypesInterleaved ==
    \E i, k, j \in 1..Len(emitted) :
        /\ i < k /\ k < j
        /\ emitted[i].key = "focus_lost"
        /\ emitted[j].key = "focus_lost"
        /\ emitted[j].at - emitted[i].at = FACE_THROTTLE_MS
        /\ emitted[k].key = "multiple_faces"
        /\ emitted[k].at > emitted[i].at
        /\ emitted[k].at - emitted[i].at < FACE_THROTTLE_MS

\* C4: before 5 seconds have passed since FaceMesh was initialized no
\* violation has been handed to an onEvent handler, none is being posted and
\* none has reached the backend.
C4_NothingBeforeActivation ==
    /\ \A i \in 1..Len(emitted) : emitted[i].at - detectionStartTime >= GRACE_MS
    /\ \A q \in posts : q.sentAt - detectionStartTime >= GRACE_MS
    /\ now - detectionStartTime < GRACE_MS => events = << >>

\* During the grace period a frame with several faces has been processed and
\* the detection interval has fired, and nothing has been emitted.
C4_MonitoringDuringGrace ==
    /\ now - detectionStartTime < GRACE_MS
    /\ faceData.facesDetected > 1
    /\ isLoaded
    /\ detecting # {}
    /\ emitted = << >>

\* C5: with detection enabled and every frame, one per tick at least, showing
\* one face looking away, a focus_lost violation has been emitted by the first
\* frame later than 2 s after the first such frame and one more by the frame a
\* tick after each further 5 s, each taking 5 points: 95, 90, 85.
C5_FocusLostCadence ==
    LET since == watch.since["away"]
        elapsed == watch.frameAt - since
        due == IF since = 0 \/ elapsed <= LOOKING_AWAY_MS THEN 0
               ELSE 1 + (Max(0, elapsed - LOOKING_AWAY_MS - TickMs)
                            \div FACE_THROTTLE_MS)
        got == { i \in 1..Len(emitted) :
                    /\ emitted[i].key = "focus_lost"
                    /\ emitted[i].at > since }
    IN  /\ Cardinality(got) >= due
        /\ currentScore <= INITIAL_SCORE - 5 * due

\* C6: once a violation has been logged by the backend and no POST is in
\* flight, the integrityScore the backend stores is lower than the initial
\* score by at least the deduction of every logged violation.
C6_BackendScoreFollowsDeductions ==
    (events # << >> /\ posts = {})
    => \A i \in 1..Len(events) :
          integrityScore <= BACKEND_DEFAULT_SCORE - Deduction(events[i].severity)

\* C7: applying a status answer with score r to a local score s gives r when
\* r < s or s = 100, and s otherwise.
C7_ReconcileRule ==
    [][\A p \in polls :
          (p.st = "resp" /\ polls' = polls \ { p })
          => currentScore' =
                IF p.integrityScore < currentScore \/ currentScore = INITIAL_SCORE
                THEN p.integrityScore
                ELSE currentScore]_vars

\* C8: every violation handed to the view, by the face hook or by the object
\* hook, takes 2 (low), 5 (medium) or 10 (high) points from the local score
\* and stops at 0; at 0 the score stays 0.
C8_DeductionPerViolation ==
    [][LET n == Len(emitted)
           fresh == SubSeq(emitted', n + 1, Len(emitted'))
           amount(severity) ==
               CASE severity = "low" -> 2
                 [] severity = "medium" -> 5
                 [] severity = "high" -> 10
           RECURSIVE after(_, _)
           after(score, k) ==
               IF k > Len(fresh) THEN score
               ELSE after(Max(0, score - amount(fresh[k].event.severity)), k + 1)
       IN  Len(emitted') > n => currentScore' = after(currentScore, 1)]_vars

\* A violation of 10 points took a score below 10 to 0 and the next violation
\* left it at 0.
C8_StoppedAtZero ==
    \E i \in 1..Len(scoreHistory) :
        /\ i > 1
        /\ scoreHistory[i - 1].score = 0
        /\ scoreHistory[i - 1].deduction = 10
        /\ currentScore = 0
        /\ scoreHistory[i].score = 0
        /\ scoreHistory[i].deduction > 0

\* C9: the first detection after activation that finds a cell phone with
\* confidence above 0.6 emits one object_detected violation of severity high
\* that takes 10 points, and two violations for that label are never less than
\* 8000 ms apart.
C9_OnePhoneViolationPerWindow ==
    LET first == watch.seen["cell phone"]
        phone == { i \in 1..Len(emitted) :
                      emitted[i].src = "object" /\ emitted[i].key = "cell phone" }
    IN  /\ first # 0 =>
              \E i \in phone :
                  /\ emitted[i].at = first
                  /\ emitted[i].event.type = "object_detected"
                  /\ emitted[i].event.severity = "high"
                  /\ \E h \in 1..Len(scoreHistory) :
                        /\ scoreHistory[h].timestamp = first
                        /\ scoreHistory[h].reason = emitted[i].event.description
                        /\ scoreHistory[h].deduction = 10
        /\ \A i, j \in phone :
              i < j => emitted[j].at - emitted[i].at >= OBJECT_THROTTLE_MS

\* C10: the answer to a POST, a failure as well as a success, changes neither
\* the local score, the score history, the local events, the throttle
\* timestamps, the condition timers nor the detection interval, and it leaves
\* the integrityScore the polls read as it is.
C10_PostOutcomeLeavesLocalState ==
    [][(posts' # posts /\ posts' \subseteq posts)
          => UNCHANGED << currentScore, scoreHistory, localEvents, lastEventTime,
                          objLastEventTime, noFaceStartTime, lookingAwayStartTime,
                          eyesClosedStartTime, detectionEnabled, objectCtl,
                          integrityScore >>]_vars

\* The POST of the first violation failed and a later violation was emitted
\* and is being posted.
C10_EmittedAfterFailedPost ==
    /\ Len(emitted) >= 2
    /\ Len(localEvents) = Len(emitted)
    /\ events = << >>
    /\ posts # {}
    /\ \A q \in posts : q.sentAt > emitted[1].at

\* C11: when violations of the two pipelines are handed to the view before
\* the earlier score update has been rendered, every deduction is applied, in
\* either order: the score is max(0, s - d1 - d2 ...) for the score s of the
\* last render, and each of the events is in the local events list.
C11_BothDeductionsApplied ==
    LET pending == watch.pending
        n == Len(pending)
        RECURSIVE sum(_)
        sum(k) == IF k = 0 THEN 0 ELSE pending[k].amount + sum(k - 1)
    IN  (n > 0 /\ \A k \in 1..n : pending[k].src \in {"face", "object"})
        => /\ currentScore = Max(0, watch.rendered - sum(n))
           /\ Len(localEvents) >= n
           /\ \A k \in 1..n :
                 LET e == localEvents[Len(localEvents) - n + k]
                 IN  /\ e.deduction = pending[k].amount
                     /\ e.type = IF pending[k].src = "face"
                                 THEN "test_violation" ELSE "object_detected"

\* A face violation of 10 points and an object violation of 5 are pending on
\* a rendered score of 8, in each order.
C11_BothPending ==
    /\ Len(watch.pending) = 2
    /\ watch.pending[1].src # watch.pending[2].src
    /\ watch.pending[1].src # "poll"
    /\ watch.pending[2].src # "poll"
    /\ watch.pending[1].amount # watch.pending[2].amount
    /\ watch.rendered = 8
    /\ currentScore = 0

\* C12: once the view is unmounted no step hands a violation to onEvent and
\* no step issues a POST, whatever was awaited at the moment of the teardown.
C12_NothingAfterTeardown ==
    [][~mounted => (emitted' = emitted /\ posts' \subseteq posts)]_vars

C14_SameAnswerTwice ==
    [][\A r \in AnswerSamples :
          ( /\ watch.last = Queued("poll", r)
            /\ watch'.last = Queued("poll", r)
            /\ watch'.ops = watch.ops + 1 )
          => currentScore' = currentScore]_vars

\* After a deduction the answer 70 has been applied twice in a row.
C14_AppliedTwice ==
    /\ Len(watch.pending) = 3
    /\ watch.pending[1].src = "face"
    /\ watch.pending[2] = Queued("poll", 70)
    /\ watch.pending[3] = Queued("poll", 70)
    /\ watch.rendered = 100
    /\ currentScore = 70

\* C15: applying a status answer whose integrityScore is outside 0..100
\* leaves the local score unchanged.
C15_OutOfRangeAnswerRejected ==
    [][\A r \in AnswerSamples :
          ( /\ watch'.last = Queued("poll", r)
            /\ watch'.ops = watch.ops + 1
            /\ r \notin 0..100 )
          => currentScore' = currentScore]_vars

\* C18: a violation whose severity is not one of low, medium, high is given
\* no deduction: delivering it to an onEvent handler leaves the local score
\* unchanged.
C18_UnknownSeverityNoDeduction ==
    [][( /\ Len(emitted') = Len(emitted) + 1
         /\ emitted'[Len(emitted')].event.severity \notin {"low", "medium", "high"} )
       => currentScore' = currentScore]_vars

\* C16: the report's totalEvents and the status' eventCount both equal the
\* number of events logged with success through POST /event, and the counts
\* of the report's eventStats sum to totalEvents.
C16_CountsAgree ==
    LET stats == Report.eventStats
        RECURSIVE total(_)
        total(types) ==
            IF types = {} THEN 0
            ELSE LET t == CHOOSE x \in types : TRUE
                 IN  stats[t] + total(types \ { t })
    IN  /\ Report.totalEvents = watch.logged
        /\ Status.eventCount = watch.logged
        /\ total(DOMAIN stats) = Report.totalEvents

\* Three events of two types were logged, one request was rejected.
C16_ThreeLoggedOfTwoTypes ==
    /\ watch.logged = 3
    /\ watch.requests = 4
    /\ Cardinality(DOMAIN Report.eventStats) = 2
    /\ \E t \in DOMAIN Report.eventStats : Report.eventStats[t] = 2

\* C17: the status of a session just started reports integrityScore 100 and
\* isActive true; once PATCH /end has succeeded the status reports isActive
\* false, and no later request makes the session active again.
C17_EndedStaysEnded ==
    /\ (Status.integrityScore = 100 /\ Status.isActive)
    /\ [][ /\ (endTime' # endTime => ~Status'.isActive)
           /\ (~Status.isActive => ~Status'.isActive) ]_vars

\* The session was ended and then an event was logged and the score patched.
C17_RequestsAfterEnd ==
    /\ ~Status.isActive
    /\ endTime # 0
    /\ watch.afterEnd >= 2
    /\ watch.requests = watch.afterEnd + 1
    /\ Status.eventCount = 1
    /\ Status.integrityScore = 70

C21_TestAllDeducts35 ==
    ( /\ testAll.runs = 1
      /\ testAll.phase = "idle"
      /\ Len(emitted) = Len(TestViolations) )
    => /\ currentScore = INITIAL_SCORE - 35
       /\ Len(scoreHistory) = 5
       /\ scoreHistory[1].deduction = 10
       /\ scoreHistory[2].deduction = 10
       /\ scoreHistory[3].deduction = 5
       /\ scoreHistory[4].deduction = 5
       /\ scoreHistory[5].deduction = 5

\* C22: once detection is enabled and every frame, one per tick at least,
\* shows no face, a no_face violation has been handed to onEvent and the
\* score has dropped by the first frame later than 3 s after the first such
\* frame (no no_face violation having been emitted before the run).
C22_NoFaceDelivered ==
    LET since == watch.since["noFace"]
        before == { i \in 1..Len(emitted) :
                       emitted[i].key = "no_face" /\ emitted[i].at <= since }
        got == { i \in 1..Len(emitted) :
                    emitted[i].key = "no_face" /\ emitted[i].at > since }
    IN  (since # 0 /\ watch.frameAt - since > NO_FACE_MS /\ before = {})
        => /\ got # {}
           /\ currentScore < INITIAL_SCORE
           /\ \E k \in 1..Len(localEvents) : localEvents[k].type = "no_face"

\* C23: once a detection started after activation has found a monitored
\* object with confidence above 0.6, an object_detected violation for that
\* object has been emitted, whether the model loaded before or after the end
\* of the grace period.
C23_ObjectEmittedEitherWay ==
    \A c \in Labels :
        watch.seen[c] # 0
        => \E i \in 1..Len(emitted) :
              /\ emitted[i].src = "object"
              /\ emitted[i].key = c
              /\ emitted[i].event.type = "object_detected"

C27_NoFaceNotAtActivation ==
    /\ ~detectionEnabled => noFaceStartTime = 0
    /\ now - detectionStartTime <= GRACE_MS => noFaceStartTime \in {0, now}
    /\ \A i \in 1..Len(emitted) :
          emitted[i].key = "no_face"
          => emitted[i].at - detectionStartTime > GRACE_MS + NO_FACE_MS

\* Detection has just been enabled and the frame processed at that moment
\* shows no face: the timer is null and nothing has been emitted.
C27_AbsentAtActivation ==
    /\ detectionEnabled
    /\ now - detectionStartTime = GRACE_MS
    /\ watch.frameAt = now
    /\ watch.onset["noFace"] = now
    /\ faceData.facesDetected = 0
    /\ noFaceStartTime = 0
    /\ emitted = << >>

\* C28: a frame with more than one face that is processed while detection is
\* enabled emits a multiple_faces violation of severity high at once, unless
\* one was emitted less than 5000 ms earlier: after the frame, a
\* multiple_faces violation of severity high less than 5000 ms old exists.
C28_MultipleFacesAtOnce ==
    [][\A snap \in Snapshots :
          (WatchedOnResults(snap) /\ detectionEnabled /\ snap.faces > 1)
          => \E i \in 1..Len(emitted') :
                /\ emitted'[i].key = "multiple_faces"
                /\ emitted'[i].event.severity = "high"
                /\ now - emitted'[i].at < 5000]_vars

\* C29: when the POST of a violation is issued, onEvent has already been
\* called for that violation, in both hooks: the violation is the last one
\* handed to onEvent at that moment, and the step that issues the POST has
\* also applied the deduction and added the local event.
C29_ObserverBeforePost ==
    /\ [](\A q \in posts :
             /\ q.after \in 1..Len(emitted)
             /\ emitted[q.after].event = q.event
             /\ emitted[q.after].at = q.sentAt
             /\ emitted[q.after].src = q.src)
    /\ [][\A q \in posts' \ posts :
             /\ Len(emitted') = Len(emitted) + Cardinality(posts' \ posts)
             /\ Len(scoreHistory') > 0
             /\ \E k \in 1..Len(localEvents') :
                   /\ localEvents'[k].type = q.event.type
                   /\ localEvents'[k].description = q.event.description
                   /\ localEvents'[k].deduction = Deduction(q.event.severity)]_vars

\* The POST of the second violation of the face hook is in flight: both
\* deductions have been applied.
C29_PostInFlightAfterDeduction ==
    \E q \in posts :
        /\ q.src = "face"
        /\ q.after = 2
        /\ q.sentAt = now
        /\ Len(scoreHistory) = 2
        /\ currentScore = INITIAL_SCORE - Deduction(emitted[1].event.severity)
                                        - Deduction(q.event.severity)

\* C30: within a pipeline the results of the frames are processed in the
\* order the frames were taken: the detection whose results are processed is
\* the oldest one awaited, also when model.detect takes longer than the 3 s
\* period of the interval.
C30_ResultsInArrivalOrder ==
    [][\A d \in detecting :
          detecting' = detecting \ { d } => \A e \in detecting : d <= e]_vars

\* C31: an emitted violation causes at most one POST /event, and none when
\* the hook has no sessionId: every POST issued by a step belongs to a
\* violation emitted by that same step, one POST per violation at most; a step
\* that emits nothing (a failed POST, a call dropped by the throttle) issues
\* no POST.
C31_AtMostOnePostPerViolation ==
    [][/\ \A q \in posts' \ posts :
             /\ HasSessionId
             /\ q.after \in (Len(emitted) + 1)..Len(emitted')
             /\ emitted'[q.after].event = q.event
             /\ \A r \in posts' \ posts : r.after = q.after => r = q
       /\ ~HasSessionId => posts' = {}]_vars

\* A violation was emitted and posted, its POST failed and nothing is in
\* flight, and a later call of the same type was dropped by the throttle.
C31_FailedAndSuppressed ==
    /\ HasSessionId
    /\ Len(emitted) = 1
    /\ posts = {}
    /\ watch.tried.type = emitted[1].key
    /\ watch.tried.at > emitted[1].at

\* C32: no delivery attempt of either hook is pending for more than the 2 s
\* of the timeout.
C32_DeliveryAbandonedAfterTimeout ==
    \A q \in posts : now - q.sentAt <= POST_TIMEOUT_MS

\* C33: two violations with deductions a and b applied to a score s give
\* max(0, s - a - b) in either order: the score after a then b is the score
\* of b then a.
C33_DeductionsCommute ==
    LET pending == watch.pending
        s == watch.rendered
    IN  Len(pending) = 2 =>
            LET a == pending[1].amount
                b == pending[2].amount
            IN  /\ a \in {2, 5, 10}
                /\ b \in {2, 5, 10}
                /\ currentScore = Max(0, s - a - b)
                /\ currentScore = ApplyDeduction(ApplyDeduction(s, b), a)

\* From a score of 7, a face violation of 5 points and then an object
\* violation of 10: the floor is met by the second deduction.
C33_FloorMetBySecond ==
    /\ Len(watch.pending) = 2
    /\ watch.rendered = 7
    /\ watch.pending[1] = Queued("face", 5)
    /\ watch.pending[2] = Queued("object", 10)
    /\ scoreHistory[1].score = 2
    /\ currentScore = 0

\* C34: a detection emits object_detected only for a prediction whose
\* lower-cased label is monitored and whose confidence is above 0.6; a label
\* with no such prediction in the detection keeps its throttle time, and a
\* detection with no such prediction changes neither throttle times nor score.
C34_OnlyMonitoredAboveThreshold ==
    [][\A d \in detecting, predictions \in Predictions :
          DetectDoneCore(d, predictions) =>
              LET qualifies(c) ==
                      \E i \in 1..Len(predictions) :
                          /\ predictions[i].class = c
                          /\ ToLowerCase(c) \in
                                { "cell phone", "book", "laptop", "keyboard",
                                  "mouse", "remote", "scissors", "teddy bear",
                                  "vase", "bottle", "cup", "tablet", "tv",
                                  "microwave", "toaster", "clock" }
                          /\ predictions[i].pct > 60
              IN  /\ \A k \in (Len(emitted) + 1)..Len(emitted') :
                        /\ emitted'[k].src = "object"
                        /\ emitted'[k].event.type = "object_detected"
                        /\ qualifies(emitted'[k].key)
                  /\ \A c \in Labels :
                        ~qualifies(c) => objLastEventTime'[c] = objLastEventTime[c]
                  /\ (\A c \in Labels : ~qualifies(c)) =>
                        /\ currentScore' = currentScore
                        /\ scoreHistory' = scoreHistory
                        /\ localEvents' = localEvents
                        /\ posts' = posts]_vars

\* A detection showed a person at 0.95 and a book at 0.7, and an earlier one a
\* cell phone at 0.6 or nothing: the book alone was emitted.
C34_BookButNotPerson ==
    /\ Len(emitted) = 1
    /\ emitted[1].key = "book"
    /\ objLastEventTime["book"] = emitted[1].at
    /\ objLastEventTime["person"] = 0
    /\ objLastEventTime["cell phone"] = 0
    /\ currentScore = INITIAL_SCORE - 5
    /\ now > emitted[1].at + DETECTION_PERIOD_MS

C36_SuppressedCandidateOnlyRearms ==
    [][\A c \in Conditions :
          LET type == ConditionEvent(c).type
              ranOut == Timer(c) # 0 /\ now - Timer(c) > Threshold(c)
              suppressed == now - lastEventTime[type] < 5000
          IN  (CandidateFrame(c, TRUE) /\ ranOut) =>
                  /\ Timer(c)' = now
                  /\ \A o \in Conditions \ {c} : Timer(o)' = Timer(o)
                  /\ suppressed =>
                        /\ lastEventTime' = lastEventTime
                        /\ objLastEventTime' = objLastEventTime
                        /\ currentScore' = currentScore
                        /\ scoreHistory' = scoreHistory
                        /\ localEvents' = localEvents
                        /\ emitted' = emitted
                        /\ posts' = posts
                        /\ events' = events
                        /\ integrityScore' = integrityScore
                  /\ ~suppressed => Len(emitted') = Len(emitted) + 1]_vars

\* The timer of looking away ran out 2001 ms after a focus_lost violation: the
\* second one was dropped and the timer re-armed.
C36_SecondCandidateDropped ==
    /\ watch.step.c = "away"
    /\ watch.step.candidate
    /\ watch.step.at = now
    /\ Len(emitted) = 1
    /\ emitted[1].at = now - 2001
    /\ lastEventTime["focus_lost"] = emitted[1].at
    /\ lookingAwayStartTime = now
    /\ currentScore = INITIAL_SCORE - 5

\* C37: a PATCH /score whose value is not a number in 0..100 is answered 400
\* and leaves the stored score as it was; a number in 0..100 is answered 200
\* and is the stored score afterwards, whatever it was; the stored score is in
\* 0..100 in every state.
C37_StoredScoreValidated ==
    /\ [](integrityScore >= 0 /\ integrityScore <= 100)
    /\ [][\A body \in ScoreBodies :
             ApiPatchRequest(body) =>
                 IF body.typeof = "number" /\ body.value \in 0..100
                 THEN integrityScore' = body.value /\ watch'.status = 200
                 ELSE integrityScore' = integrityScore /\ watch'.status = 400]_vars

\* The score was set to 5, and a later PATCH with the string "70", null or a
\* number out of range was answered 400.
C37_RejectedAfterFive ==
    /\ integrityScore = 5
    /\ watch.status = 400
    /\ watch.requests >= 2

====
